---- MODULE Spec2Model ----
(***************************************************************************)
(* term_ansi: nested ANSI colour formatting.                               *)
(*                                                                         *)
(* The model follows src/src/lib.rs (the library crate) and                *)
(* src/src/main.rs (the demo binary, which carries its own copy of the     *)
(* context stack and of apply_color!).                                     *)
(*                                                                         *)
(* A string is a sequence of tokens: an escape sequence is one token       *)
(* (written "ESC[31m" for "\x1b[31m"), a piece of literal text is one      *)
(* token.  format!'s concatenation is \o on token sequences.               *)
(*                                                                         *)
(* A style expression is evaluated in steps: Begin is the macro's push,    *)
(* Text and nested Begin..End pairs are the evaluation of the format       *)
(* arguments, End is the rest of the macro.  Callers of the model call     *)
(* ColorContext directly only between style expressions, and a panic       *)
(* raised while the arguments are formatted unwinds every expansion in     *)
(* progress up to a catch_unwind around the outermost one.                 *)
(***************************************************************************)
EXTENDS Integers, Sequences, FiniteSets, TLC

VARIABLES
    live,    \* threads whose thread-local COLOR_CONTEXT has been initialised
    stack,   \* stack[t]: the Vec<String> inside thread t's COLOR_CONTEXT
    frames,  \* frames[t]: the apply_color! expansions in progress in thread t
    done,    \* done[t]: what the operation thread t just completed returned
    conv     \* the last call of hsl_to_rgb or hsv_to_rgb, with what it returned

vars == <<live, stack, frames, done, conv>>

----------------------------------------------------------------------------
(* Bounds of the model *)

MaxDepth == 3
MaxLen == 6
MaxDepthMT == 2
MaxLenMT == 3
MaxDepthMacro == 2
MaxLenMacro == 4

Threads == {1, 2}
MainThread == {1}


----------------------------------------------------------------------------
(* Escape sequences *)

RED == "ESC[31m"
GREEN == "ESC[32m"
WHITE == "ESC[37m"

\* the codes the model's callers pass to apply_color!
Codes == {RED, GREEN, WHITE}

\* the literal text pieces of the model's format strings
Texts == {"Hello"}

reset_all == "ESC[0m"

Lim == [depth |-> MaxDepth, len |-> MaxLen, codes |-> Codes]
LimMT == [depth |-> MaxDepthMT, len |-> MaxLenMT, codes |-> {RED, GREEN}]

----------------------------------------------------------------------------
(* COLOR_CONTEXT and ColorContext *)

\* thread_local!: the initial value of a thread's COLOR_CONTEXT
ContextInit == <<"ESC[37m">>

\* a static shared by all threads instead of a thread_local!
SharedSlot(t) == 1

\* thread_local!: the slot thread t's COLOR_CONTEXT.with(..) reaches
Slot(t) == t

\* COLOR_CONTEXT.with: the Vec thread t sees, initialised on first use
With(t) == IF Slot(t) \in live THEN stack[Slot(t)] ELSE ContextInit

\* insert(0, ..) instead of push(..)
push_front(s, color) == <<color>> \o s

\* the entry pushed twice
push_twice(s, color) == Append(Append(s, color), color)

\* Vec::push
push(s, color) == Append(s, color)

\* the pop left out
pop_noop(s) == s

\* two entries popped
pop_two(s) == IF Len(s) <= 2 THEN <<>> ELSE SubSeq(s, 1, Len(s) - 2)

\* Vec::pop, whose Option result ColorContext::pop discards
pop(s) == IF s = <<>> THEN s ELSE SubSeq(s, 1, Len(s) - 1)

\* first() instead of last()
current_color_bottom(s) == IF s = <<>> THEN "ESC[37m" ELSE s[1]

\* the reset sequence as the fallback
current_color_reset(s) == IF s = <<>> THEN "ESC[0m" ELSE s[Len(s)]

\* unwrap_or_default() instead of the white fallback
current_color_nofallback(s) == IF s = <<>> THEN "" ELSE s[Len(s)]

\* ctx.borrow().last().cloned().unwrap_or_else(|| String::from("\x1b[37m"))
current_color(s) == IF s = <<>> THEN "ESC[37m" ELSE s[Len(s)]

----------------------------------------------------------------------------
(* apply_color! *)

\* the reset left out of the format string
lib_result_noreset(code, content) == <<code>> \o content

\* lib.rs: format!("{}{}{}", $color_code, format!($($arg)*), reset_all())
lib_result(code, content) == <<code>> \o content \o <<reset_all>>

\* main.rs: format!("{}{}", $color_code, format!($($arg)*))
bin_result(code, content) == <<code>> \o content

result(crate, code, content) ==
    IF crate = "lib" THEN lib_result(code, content) ELSE bin_result(code, content)

\* a fixed default appended instead of the enclosing code
closing_default(res, s) == res \o <<"ESC[37m">>

\* format!("{}{}", result, ColorContext::current_color())
closing(res, s) == res \o <<current_color(s)>>

\* current_color() read before ColorContext::pop()
apply_out_read_first(crate, code, content, s) ==
    closing(result(crate, code, content), s)

\* what the macro returns once the content is rendered, on the stack s it finds:
\* let result = ..; ColorContext::pop(); format!("{}{}", result, current_color())
apply_out(crate, code, content, s) ==
    closing(result(crate, code, content), pop(s))

Last(s) == s[Len(s)]

\* tokens a nested call adds to its caller's content besides its own content
Wrap(crate) == Len(closing(result(crate, "", <<>>), <<>>))

\* tokens the content of the outermost call in progress will hold once the calls
\* in progress have returned
RECURSIVE Used(_, _)
Used(fs, crate) ==
    IF fs = <<>> THEN 0
    ELSE Len(fs[Len(fs)].buf) + Used(SubSeq(fs, 1, Len(fs) - 1), crate)
         + (IF Len(fs) > 1 THEN Wrap(crate) ELSE 0)

None == [kind |-> "none"]

\* every step by thread t touches its own slot only
Store(t, s) ==
    /\ stack' = [stack EXCEPT ![Slot(t)] = s]
    /\ live' = live \cup {Slot(t)}
    /\ UNCHANGED conv

\* the entry point of a direct apply_color! call
Direct_apply == [macro |-> "apply_color", args |-> <<>>]

\* ColorContext::push($color_code): the macro's first statement; via names the
\* entry point the caller wrote
Enter(t, via, c, crate, lim) ==
    /\ Len(frames[t]) < lim.depth
    /\ frames[t] # <<>> => Used(frames[t], crate) + Wrap(crate) <= lim.len
    /\ Len(With(t)) <= lim.depth
    /\ Store(t, push(With(t), c))
    /\ frames' = [frames EXCEPT ![t] =
                    Append(@, [code |-> c, buf |-> <<>>, stack0 |-> With(t), via |-> via])]
    /\ done' = [done EXCEPT ![t] = None]

\* apply_color!(c, ..)
Begin(t, c, crate, lim) == Enter(t, Direct_apply, c, crate, lim)

\* let error_message = red!(..); white!("..{}", error_message): a call whose first
\* format argument is a local holding the result of the call that just returned
BeginEmbed(t, c, lim) ==
    /\ frames[t] = <<>>
    /\ done[t].kind = "ret"
    /\ Len(done[t].out) <= lim.len
    /\ Len(With(t)) <= lim.depth
    /\ Store(t, push(With(t), c))
    /\ frames' = [frames EXCEPT ![t] =
                    <<[code |-> c, buf |-> done[t].out, stack0 |-> With(t),
                       via |-> Direct_apply]>>]
    /\ done' = [done EXCEPT ![t] =
                  [kind |-> "embed", str |-> done[t].out,
                   top0 |-> current_color(done[t].stack0), encl |-> c]]

\* format!($($arg)*): a literal piece of the format string (or a plain argument);
\* two pieces with nothing between them are one piece
Text(t, s, crate, lim) ==
    /\ frames[t] # <<>>
    /\ Used(frames[t], crate) < lim.len
    /\ LET n == Len(frames[t]) IN
        /\ IF frames[t][n].buf = <<>> THEN TRUE ELSE Last(frames[t][n].buf) \notin Texts
        /\ frames' = [frames EXCEPT ![t][n].buf = Append(@, s)]
    /\ Store(t, With(t))
    /\ done' = [done EXCEPT ![t] = None]

\* the rest of the macro: wrap, ColorContext::pop(), append current_color()
End(t, crate) ==
    /\ frames[t] # <<>>
    /\ LET n == Len(frames[t])
           f == frames[t][n]
           s == pop(With(t))
           out == apply_out(crate, f.code, f.buf, With(t))
       IN
        /\ Store(t, s)
        /\ frames' = [frames EXCEPT ![t] =
                        IF n = 1 THEN <<>>
                        ELSE [SubSeq(@, 1, n - 1) EXCEPT ![n - 1].buf = @ \o out]]
        /\ done' = [done EXCEPT ![t] =
                      [kind |-> "ret", code |-> f.code, content |-> f.buf,
                       stack0 |-> f.stack0, out |-> out, depth |-> n, via |-> f.via,
                       encl |-> IF n = 1 THEN "none" ELSE frames[t][n - 1].code]]

\* format!($($arg)*) panics (an argument's Display impl or expression panics): the
\* expansions in progress unwind to the thread's catch_unwind; nothing on the way pops
Unwind(t) ==
    /\ frames[t] # <<>>
    /\ frames' = [frames EXCEPT ![t] = <<>>]
    /\ done' = [done EXCEPT ![t] = [kind |-> "panic", stack0 |-> frames[t][1].stack0]]
    /\ Store(t, With(t))

----------------------------------------------------------------------------
(* ColorContext called directly, between the caller's style expressions *)

Push(t, c, lim) ==
    /\ frames[t] = <<>>
    /\ Len(With(t)) <= lim.depth
    /\ Store(t, push(With(t), c))
    /\ done' = [done EXCEPT ![t] = [kind |-> "push", stack0 |-> With(t), code |-> c]]
    /\ UNCHANGED frames

Pop(t) ==
    /\ frames[t] = <<>>
    /\ Store(t, pop(With(t)))
    /\ done' = [done EXCEPT ![t] = [kind |-> "pop", stack0 |-> With(t)]]
    /\ UNCHANGED frames

CurrentColor(t) ==
    /\ frames[t] = <<>>
    /\ Store(t, With(t))
    /\ done' = [done EXCEPT ![t] =
                  [kind |-> "cur", stack0 |-> With(t), val |-> current_color(With(t))]]
    /\ UNCHANGED frames

----------------------------------------------------------------------------
(* hsl_to_rgb and hsv_to_rgb *)

(* The f64 arguments are taken from a grid on which every intermediate value   *)
(* of the two functions is a multiple of 1/32, hence exact in f64: the hue h   *)
(* is a whole number of degrees and a multiple of 30, and s, l and v are given *)
(* in quarters (s = 4 stands for 1.0, l = 2 for 0.5).  c, x, m and the         *)
(* channel values below are in units of 1/32.                                  *)

Hues == {30 * k : k \in (0 - 2)..14}
Quarters == 0..4

abs(a) == IF a < 0 THEN 0 - a ELSE a

\* f64's %: the remainder has the sign of the dividend
rem(a, b) == IF a >= 0 THEN a % b ELSE 0 - ((0 - a) % b)

\* 1.0 - ((h / 60.0) % 2.0 - 1.0).abs(), in halves
hue_factor(h) == 2 - abs(rem(h \div 30, 4) - 2)

\* the two match arms for 60..120 and 120..180 exchanged
sector_exchanged(h, c, x) ==
    CASE h >= 0 /\ h < 60 -> <<c, x, 0>>
      [] h >= 60 /\ h < 120 -> <<0, c, x>>
      [] h >= 120 /\ h < 180 -> <<x, c, 0>>
      [] h >= 180 /\ h < 240 -> <<0, x, c>>
      [] h >= 240 /\ h < 300 -> <<x, 0, c>>
      [] h >= 300 /\ h <= 360 -> <<c, 0, x>>
      [] OTHER -> <<0, 0, 0>>

\* let (r, g, b) = match h { .. }
sector(h, c, x) ==
    CASE h >= 0 /\ h < 60 -> <<c, x, 0>>
      [] h >= 60 /\ h < 120 -> <<x, c, 0>>
      [] h >= 120 /\ h < 180 -> <<0, c, x>>
      [] h >= 180 /\ h < 240 -> <<0, x, c>>
      [] h >= 240 /\ h < 300 -> <<x, 0, c>>
      [] h >= 300 /\ h <= 360 -> <<c, 0, x>>
      [] OTHER -> <<0, 0, 0>>

\* f64::round: to the nearest integer, halves away from zero; n is in units of 1/32
round(n) == IF n >= 0 THEN (2 * n + 32) \div 64 ELSE 0 - ((32 - 2 * n) \div 64)

\* `as u8`: a saturating cast
as_u8(i) == IF i < 0 THEN 0 ELSE IF i > 255 THEN 255 ELSE i

\* ((r + m) * 255.0).round() as u8
channel(v, m) == as_u8(round((v + m) * 255))

channels(p, m) == <<channel(p[1], m), channel(p[2], m), channel(p[3], m)>>

hsl_to_rgb(h, s, l) ==
    LET c == 2 * (4 - abs(2 * l - 4)) * s
        x == (4 - abs(2 * l - 4)) * s * hue_factor(h)
        m == 8 * l - (4 - abs(2 * l - 4)) * s
    IN channels(sector(h, c, x), m)

hsv_to_rgb(h, s, v) ==
    LET c == 2 * v * s
        x == v * s * hue_factor(h)
        m == 8 * v - 2 * v * s
    IN channels(sector(h, c, x), m)

Hsl(h, s, l) ==
    /\ conv' = [kind |-> "hsl", h |-> h, s |-> s, l |-> l, rgb |-> hsl_to_rgb(h, s, l)]
    /\ UNCHANGED <<live, stack, frames, done>>

Hsv(h, s, v) ==
    /\ conv' = [kind |-> "hsv", h |-> h, s |-> s, l |-> v, rgb |-> hsv_to_rgb(h, s, v)]
    /\ UNCHANGED <<live, stack, frames, done>>

----------------------------------------------------------------------------
(* The named, RGB, HSL and HSV entry points of lib.rs *)

ForegroundMacros == <<"black", "red", "green", "yellow", "blue", "magenta", "cyan", "white">>
BackgroundMacros == <<"bg_black", "bg_red", "bg_green", "bg_yellow", "bg_blue",
                      "bg_magenta", "bg_cyan", "bg_white">>
StyleMacros == <<"bold", "italic", "underline">>
ColoursVariants == <<"Black", "Red", "Green", "Yellow", "Blue", "Magenta", "Cyan", "White">>

Range(f) == {f[i] : i \in DOMAIN f}

NamedMacros == Range(ForegroundMacros) \cup Range(BackgroundMacros) \cup Range(StyleMacros)

\* blue! and yellow! with each other's code
named_code_exchanged(name) ==
    CASE name = "red" -> "ESC[31m"
      [] name = "green" -> "ESC[32m"
      [] name = "blue" -> "ESC[33m"
      [] name = "white" -> "ESC[37m"
      [] name = "black" -> "ESC[30m"
      [] name = "yellow" -> "ESC[34m"
      [] name = "magenta" -> "ESC[35m"
      [] name = "cyan" -> "ESC[36m"
      [] name = "bg_red" -> "ESC[41m"
      [] name = "bg_green" -> "ESC[42m"
      [] name = "bg_blue" -> "ESC[44m"
      [] name = "bg_white" -> "ESC[47m"
      [] name = "bg_black" -> "ESC[40m"
      [] name = "bg_yellow" -> "ESC[43m"
      [] name = "bg_magenta" -> "ESC[45m"
      [] name = "bg_cyan" -> "ESC[46m"
      [] name = "bold" -> "ESC[1m"
      [] name = "italic" -> "ESC[3m"
      [] name = "underline" -> "ESC[4m"

\* the code each named macro hands to apply_color!, in the order of lib.rs
named_code(name) ==
    CASE name = "red" -> "ESC[31m"
      [] name = "green" -> "ESC[32m"
      [] name = "blue" -> "ESC[34m"
      [] name = "white" -> "ESC[37m"
      [] name = "black" -> "ESC[30m"
      [] name = "yellow" -> "ESC[33m"
      [] name = "magenta" -> "ESC[35m"
      [] name = "cyan" -> "ESC[36m"
      [] name = "bg_red" -> "ESC[41m"
      [] name = "bg_green" -> "ESC[42m"
      [] name = "bg_blue" -> "ESC[44m"
      [] name = "bg_white" -> "ESC[47m"
      [] name = "bg_black" -> "ESC[40m"
      [] name = "bg_yellow" -> "ESC[43m"
      [] name = "bg_magenta" -> "ESC[45m"
      [] name = "bg_cyan" -> "ESC[46m"
      [] name = "bold" -> "ESC[1m"
      [] name = "italic" -> "ESC[3m"
      [] name = "underline" -> "ESC[4m"

\* Colours::as_str
as_str(colour) ==
    CASE colour = "Black" -> "30"
      [] colour = "Red" -> "31"
      [] colour = "Green" -> "32"
      [] colour = "Yellow" -> "33"
      [] colour = "Blue" -> "34"
      [] colour = "Magenta" -> "35"
      [] colour = "Cyan" -> "36"
      [] colour = "White" -> "37"

\* the channels written in the order red, blue, green
rgb_code_rbg(r, g, b) ==
    "ESC[38;2;" \o ToString(r) \o ";" \o ToString(b) \o ";" \o ToString(g) \o "m"

\* rgb!: format!("\x1b[38;2;{};{};{}m", $r, $g, $b)
rgb_code(r, g, b) ==
    "ESC[38;2;" \o ToString(r) \o ";" \o ToString(g) \o ";" \o ToString(b) \o "m"

\* bg_rgb!: format!("\x1b[48;2;{};{};{}m", $r, $g, $b)
bg_rgb_code(r, g, b) ==
    "ESC[48;2;" \o ToString(r) \o ";" \o ToString(g) \o ";" \o ToString(b) \o "m"

\* hsv_to_rgb called where hsl_to_rgb is meant
hsl_code_by_hsv(h, s, l) ==
    LET p == hsv_to_rgb(h, s, l) IN rgb_code(p[1], p[2], p[3])

\* hsl!: let (r, g, b) = hsl_to_rgb($h, $s, $l); rgb!(r, g, b, ..)
hsl_code(h, s, l) ==
    LET p == hsl_to_rgb(h, s, l) IN rgb_code(p[1], p[2], p[3])

\* hsv!: let (r, g, b) = hsv_to_rgb($h, $s, $v); rgb!(r, g, b, ..)
hsv_code(h, s, v) ==
    LET p == hsv_to_rgb(h, s, v) IN rgb_code(p[1], p[2], p[3])

\* bg_hsl!: let (r, g, b) = hsl_to_rgb($h, $s, $l); bg_rgb!(r, g, b, ..)
bg_hsl_code(h, s, l) ==
    LET p == hsl_to_rgb(h, s, l) IN bg_rgb_code(p[1], p[2], p[3])

\* bg_hsv!: let (r, g, b) = hsv_to_rgb($h, $s, $v); bg_rgb!(r, g, b, ..)
bg_hsv_code(h, s, v) ==
    LET p == hsv_to_rgb(h, s, v) IN bg_rgb_code(p[1], p[2], p[3])

\* the arguments the model's callers pass to the colour macros
Channels == {0, 128, 255}
MacroHues == {0, 120, 240, 420}
MacroQuarters == {2, 4}

ApplyNamed(t, name, lim) ==
    Enter(t, [macro |-> name, args |-> <<>>], named_code(name), "lib", lim)

ApplyRgb(t, r, g, b, lim) ==
    Enter(t, [macro |-> "rgb", args |-> <<r, g, b>>], rgb_code(r, g, b), "lib", lim)

ApplyBgRgb(t, r, g, b, lim) ==
    Enter(t, [macro |-> "bg_rgb", args |-> <<r, g, b>>], bg_rgb_code(r, g, b), "lib", lim)

ApplyHsl(t, h, s, l, lim) ==
    Enter(t, [macro |-> "hsl", args |-> <<h, s, l>>], hsl_code(h, s, l), "lib", lim)

ApplyHsv(t, h, s, v, lim) ==
    Enter(t, [macro |-> "hsv", args |-> <<h, s, v>>], hsv_code(h, s, v), "lib", lim)

ApplyBgHsl(t, h, s, l, lim) ==
    Enter(t, [macro |-> "bg_hsl", args |-> <<h, s, l>>], bg_hsl_code(h, s, l), "lib", lim)

ApplyBgHsv(t, h, s, v, lim) ==
    Enter(t, [macro |-> "bg_hsv", args |-> <<h, s, v>>], bg_hsv_code(h, s, v), "lib", lim)

LimMacro == [depth |-> MaxDepthMacro, len |-> MaxLenMacro, codes |-> {}]

----------------------------------------------------------------------------
(* Specifications *)

Init ==
    /\ live = {}
    /\ stack = [t \in Threads |-> <<>>]
    /\ frames = [t \in Threads |-> <<>>]
    /\ done = [t \in Threads |-> None]
    /\ conv = None

\* a style expression being evaluated
Apply(t, crate, lim) ==
    \/ \E c \in lim.codes : Begin(t, c, crate, lim)
    \/ \E s \in Texts : Text(t, s, crate, lim)
    \/ End(t, crate)

Direct(t, lim) ==
    \/ \E c \in lim.codes : Push(t, c, lim)
    \/ Pop(t)
    \/ CurrentColor(t)

Step(t, crate, lim) ==
    \/ Apply(t, crate, lim)
    \/ \E c \in lim.codes : BeginEmbed(t, c, lim)
    \/ Unwind(t)
    \/ Direct(t, lim)

\* one thread of a program that uses the library crate
Next == \E t \in MainThread : Step(t, "lib", Lim)

Spec == Init /\ [][Next]_vars

\* the demo binary main.rs, with its own COLOR_CONTEXT and apply_color!
NextBin == \E t \in MainThread : Step(t, "bin", Lim)

SpecBin == Init /\ [][NextBin]_vars

\* two threads of a program that uses the library crate
NextMT == \E t \in Threads : Apply(t, "lib", LimMT) \/ Direct(t, LimMT)

SpecMT == Init /\ [][NextMT]_vars

\* a caller of the two conversions
NextConv ==
    \E h \in Hues, s \in Quarters, l \in Quarters : Hsl(h, s, l) \/ Hsv(h, s, l)

SpecConv == Init /\ [][NextConv]_vars

\* one thread that styles through the named and the colour macros
NextMacro ==
    \E t \in MainThread :
        \/ \E name \in NamedMacros : ApplyNamed(t, name, LimMacro)
        \/ \E r \in Channels, g \in Channels, b \in Channels :
              ApplyRgb(t, r, g, b, LimMacro) \/ ApplyBgRgb(t, r, g, b, LimMacro)
        \/ \E h \in MacroHues, s \in {4}, l \in MacroQuarters :
              \/ ApplyHsl(t, h, s, l, LimMacro)
              \/ ApplyHsv(t, h, s, l, LimMacro)
              \/ ApplyBgHsl(t, h, s, l, LimMacro)
              \/ ApplyBgHsv(t, h, s, l, LimMacro)
        \/ \E x \in Texts : Text(t, x, "lib", LimMacro)
        \/ End(t, "lib")

SpecMacro == Init /\ [][NextMacro]_vars

\* one thread that touches the stack through apply_color! only, every call returning
NextApply == \E t \in MainThread : Apply(t, "lib", Lim)

SpecApply == Init /\ [][NextApply]_vars

----------------------------------------------------------------------------
(* Properties *)

Returned(t) == done[t].kind = "ret"

\* the last two tokens of a string
Trail(out) == SubSeq(out, Len(out) - 1, Len(out))

PlainText(content) == \A i \in 1..Len(content) : content[i] \in Texts

\* C1: a call whose content holds no styled region returns its code, the content,
\* the reset sequence and then the code that was on top of the stack just
\* before the call (white when the stack was empty or held the sentinel only).
C1_SimpleApply ==
    \A t \in Threads :
        (Returned(t) /\ PlainText(done[t].content)) =>
            done[t].out = <<done[t].code>> \o done[t].content \o <<"ESC[0m">>
                          \o <<IF done[t].stack0 = <<>> THEN "ESC[37m"
                               ELSE done[t].stack0[Len(done[t].stack0)]>>

\* red!("Hello") on a fresh thread
C1_Witness ==
    /\ Returned(1)
    /\ done[1].stack0 = <<"ESC[37m">>
    /\ done[1].out = <<"ESC[31m", "Hello", "ESC[0m", "ESC[37m">>

\* C2: a call evaluated as a format argument of an outer call closes with the reset
\* sequence followed by the outer call's code; the outermost call closes with the
\* reset sequence followed by the code that was on top before it started.
C2_SiblingsRestoreOuter ==
    \A t \in Threads :
        Returned(t) =>
            /\ done[t].encl # "none" => Trail(done[t].out) = <<"ESC[0m", done[t].encl>>
            /\ done[t].depth = 1 =>
                  Trail(done[t].out) = <<"ESC[0m", current_color(done[t].stack0)>>

\* red!("{}{}", green!(""), white!("")) on a fresh thread
C2_Witness ==
    /\ Returned(1)
    /\ done[1].depth = 1
    /\ done[1].out = <<"ESC[31m", "ESC[32m", "ESC[0m", "ESC[31m",
                       "ESC[37m", "ESC[0m", "ESC[31m", "ESC[0m", "ESC[37m">>

\* C3: when a call at depth k >= 2 returns, its output ends with the reset sequence
\* followed by the code of the call at depth k - 1, and at that moment that call is
\* still in progress with its code on top of the stack and the output at the end
\* of its content; a call at depth 1 closes with the code on top before it.
C3_RestoreDirectEncloser ==
    \A t \in Threads :
        Returned(t) =>
            IF done[t].depth >= 2
            THEN /\ Len(frames[t]) = done[t].depth - 1
                 /\ Trail(done[t].out) = <<"ESC[0m", frames[t][done[t].depth - 1].code>>
                 /\ With(t) # <<>>
                 /\ With(t)[Len(With(t))] = frames[t][done[t].depth - 1].code
                 /\ Len(frames[t][done[t].depth - 1].buf) >= Len(done[t].out)
                 /\ SubSeq(frames[t][done[t].depth - 1].buf,
                           Len(frames[t][done[t].depth - 1].buf) - Len(done[t].out) + 1,
                           Len(frames[t][done[t].depth - 1].buf)) = done[t].out
            ELSE /\ frames[t] = <<>>
                 /\ Trail(done[t].out) = <<"ESC[0m", current_color(done[t].stack0)>>

\* white!("") returns inside green!(..) inside red!(..): red, green still in progress
C3_Witness ==
    /\ Returned(1)
    /\ done[1].depth = 3
    /\ done[1].out = <<"ESC[37m", "ESC[0m", "ESC[32m">>
    /\ Len(frames[1]) = 2
    /\ frames[1][1].code = "ESC[31m"
    /\ frames[1][2].code = "ESC[32m"
    /\ With(1) = <<"ESC[37m", "ESC[31m", "ESC[32m">>

\* C4 (as claimed): the stack always holds at least one entry.
C4_NeverEmpty == \A t \in Threads : Len(With(t)) >= 1

\* C5: when a call returns, the stack is element for element the stack from
\* before the call, and current_color() gives what it gave before the call.
C5_StackRestored ==
    \A t \in Threads :
        Returned(t) =>
            /\ With(t) = done[t].stack0
            /\ current_color(With(t)) = current_color(done[t].stack0)

\* a call with a nested call returns on a stack that held two entries
C5_Witness ==
    /\ Returned(1)
    /\ done[1].depth = 1
    /\ Len(done[1].content) >= 3
    /\ ~PlainText(done[1].content)
    /\ With(1) = <<"ESC[37m", "ESC[32m">>

\* C6 (as claimed): after a call whose rendering panicked, the stack is the stack
\* from before the call.
C6_PopOnUnwind ==
    \A t \in Threads : done[t].kind = "panic" => With(t) = done[t].stack0

Local(u) == <<With(u), current_color(With(u)), frames[u], done[u]>>

\* C8: a thread that has not used its context yet sees the sentinel alone, and a
\* step of one thread leaves what every other thread observes unchanged.
C8_ThreadIsolation ==
    /\ [](\A t \in Threads : t \notin live => With(t) = <<"ESC[37m">>)
    /\ [][\A t \in Threads :
            (Apply(t, "lib", LimMT) \/ Direct(t, LimMT)) =>
                \A u \in Threads \ {t} : Local(u)' = Local(u)]_vars

\* thread 2 returns from a call on its own stack while thread 1 is two calls deep
C8_Witness ==
    /\ Len(frames[1]) = 2
    /\ With(1) = <<"ESC[37m", "ESC[31m", "ESC[32m">>
    /\ Returned(2)
    /\ done[2].out = <<"ESC[32m", "ESC[0m", "ESC[37m">>
    /\ With(2) = <<"ESC[37m">>

\* what lib.rs's apply_color! returns for a code, a content and a stack
lib_apply_color(code, content, s) ==
    closing(lib_result(code, content), pop(push(s, code)))

\* C9 (as claimed): every apply_color! of the repository returns, for the same
\* code, content and stack, what lib.rs's apply_color! returns.
C9_OneClosingVariant ==
    \A t \in Threads :
        Returned(t) =>
            done[t].out = lib_apply_color(done[t].code, done[t].content, done[t].stack0)

\* C10: current_color() returns the top entry, or white on an empty stack, and
\* leaves the stack as it was.
C10_CurrentColor ==
    \A t \in Threads :
        done[t].kind = "cur" =>
            /\ done[t].val = (IF done[t].stack0 = <<>> THEN "ESC[37m"
                              ELSE done[t].stack0[Len(done[t].stack0)])
            /\ With(t) = done[t].stack0

\* current_color() on the stack emptied by a pop of the sentinel
C10_Witness ==
    /\ done[1].kind = "cur"
    /\ done[1].stack0 = <<>>
    /\ done[1].val = "ESC[37m"

\* C11 (as claimed): for a hue below 0 or above 360 both conversions return black.
C11_OutOfRangeBlack ==
    (conv.kind # "none" /\ (conv.h < 0 \/ conv.h > 360)) => conv.rgb = <<0, 0, 0>>

\* the value a channel is rounded from, in units of 1/32, by the hue sector h / 60
\* (360 belongs to the last sector); hi, mid and lo stand for c + m, x + m and m
Expected(h, hi, mid, lo) ==
    LET k == IF h = 360 THEN 5 ELSE h \div 60 IN
    <<IF k \in {0, 5} THEN hi ELSE IF k \in {1, 4} THEN mid ELSE lo,
      IF k \in {1, 2} THEN hi ELSE IF k \in {0, 3} THEN mid ELSE lo,
      IF k \in {3, 4} THEN hi ELSE IF k \in {2, 5} THEN mid ELSE lo>>

\* i is an integer of 0..255 nearest to n * 255 / 32
Nearest(i, n) == i \in 0..255 /\ 2 * abs(32 * i - 255 * n) <= 32

\* C12: the canonical points give the pure primaries, and for a hue of 0..360 each
\* channel is the value its hue sector selects, plus m, times 255, rounded to the
\* nearest integer of 0..255.
C12_SectorsAndPrimaries ==
    /\ (conv.kind = "hsl" /\ conv.h = 0 /\ conv.s = 4 /\ conv.l = 2) =>
          conv.rgb = <<255, 0, 0>>
    /\ (conv.kind = "hsl" /\ conv.h = 120 /\ conv.s = 4 /\ conv.l = 2) =>
          conv.rgb = <<0, 255, 0>>
    /\ (conv.kind = "hsv" /\ conv.h = 120 /\ conv.s = 4 /\ conv.l = 4) =>
          conv.rgb = <<0, 255, 0>>
    /\ (conv.kind = "hsv" /\ conv.h = 240 /\ conv.s = 4 /\ conv.l = 4) =>
          conv.rgb = <<0, 0, 255>>
    /\ (conv.kind # "none" /\ conv.h >= 0 /\ conv.h <= 360) =>
          LET span == IF conv.kind = "hsl"
                      THEN (4 - abs(2 * conv.l - 4)) * conv.s
                      ELSE conv.l * conv.s
              lo == IF conv.kind = "hsl" THEN 8 * conv.l - span
                    ELSE 8 * conv.l - 2 * span
              hi == lo + 2 * span
              mid == lo + span * (2 - abs(((conv.h \div 30) % 4) - 2))
              e == Expected(conv.h, hi, mid, lo)
          IN \A i \in 1..3 : Nearest(conv.rgb[i], e[i])

\* hsl_to_rgb(150.0, 1.0, 0.5): green with half of the blue
C12_Witness ==
    /\ conv.kind = "hsl"
    /\ conv.h = 150 /\ conv.s = 4 /\ conv.l = 2
    /\ conv.rgb = <<0, 255, 128>>

\* the SGR number the macro name stands for: 30..37 for the foreground colours
\* black, red, green, yellow, blue, magenta, cyan, white, 40..47 for their bg_
\* variants, 1, 3, 4 for bold, italic, underline
SgrNumber(name) ==
    IF \E i \in 1..8 : ForegroundMacros[i] = name
    THEN 29 + (CHOOSE i \in 1..8 : ForegroundMacros[i] = name)
    ELSE IF \E i \in 1..8 : BackgroundMacros[i] = name
    THEN 39 + (CHOOSE i \in 1..8 : BackgroundMacros[i] = name)
    ELSE IF name = "bold" THEN 1 ELSE IF name = "italic" THEN 3 ELSE 4

Sgr(n) == "ESC[" \o ToString(n) \o "m"

\* C13: a call through a named macro returns what apply_color! returns for the
\* code ESC[<n>m of its SGR number, and the eight foreground numbers are those
\* of Colours::as_str().
C13_NamedEntryPoints ==
    /\ \A t \in Threads :
          (Returned(t) /\ done[t].via.macro \in NamedMacros) =>
              /\ done[t].code = Sgr(SgrNumber(done[t].via.macro))
              /\ done[t].out = lib_apply_color(Sgr(SgrNumber(done[t].via.macro)),
                                               done[t].content, done[t].stack0)
    /\ \A i \in 1..8 :
          /\ as_str(ColoursVariants[i]) = ToString(29 + i)
          /\ named_code(ForegroundMacros[i]) = "ESC[" \o as_str(ColoursVariants[i]) \o "m"

\* blue!("{}", bg_yellow!("Hello")) on a fresh thread
C13_Witness ==
    /\ Returned(1)
    /\ done[1].via.macro = "blue"
    /\ done[1].out = <<"ESC[34m", "ESC[43m", "Hello", "ESC[0m", "ESC[34m",
                       "ESC[0m", "ESC[37m">>

\* ESC[38;2;r;g;bm (layer 38) or ESC[48;2;r;g;bm (layer 48)
TrueColour(layer, p) ==
    "ESC[" \o ToString(layer) \o ";2;" \o ToString(p[1]) \o ";" \o ToString(p[2])
           \o ";" \o ToString(p[3]) \o "m"

RgbLayer(macro) == IF macro = "rgb" THEN 38 ELSE 48

\* C14: rgb! and bg_rgb! are apply_color! with the code ESC[38;2;r;g;bm and
\* ESC[48;2;r;g;bm; that code is the entry the call pushes, and a call nested
\* directly inside closes with it.
C14_RgbEntryPoints ==
    \A t \in Threads :
        /\ \A i \in 1..Len(frames[t]) :
              frames[t][i].via.macro \in {"rgb", "bg_rgb"} =>
                  /\ frames[t][i].via.args \in (0..255) \X (0..255) \X (0..255)
                  /\ With(t)[Len(frames[t][i].stack0) + 1] =
                        TrueColour(RgbLayer(frames[t][i].via.macro), frames[t][i].via.args)
        /\ (Returned(t) /\ done[t].via.macro \in {"rgb", "bg_rgb"}) =>
              done[t].out = lib_apply_color(
                                TrueColour(RgbLayer(done[t].via.macro), done[t].via.args),
                                done[t].content, done[t].stack0)
        /\ (Returned(t) /\ done[t].depth >= 2
              /\ frames[t][done[t].depth - 1].via.macro \in {"rgb", "bg_rgb"}) =>
              Trail(done[t].out) =
                  <<"ESC[0m", TrueColour(RgbLayer(frames[t][done[t].depth - 1].via.macro),
                                         frames[t][done[t].depth - 1].via.args)>>

\* red!(..) returns inside bg_rgb!(0, 128, 255, ..)
C14_Witness ==
    /\ Returned(1)
    /\ done[1].depth = 2
    /\ done[1].out = <<"ESC[31m", "ESC[0m", "ESC[48;2;0;128;255m">>
    /\ frames[1][1].via = [macro |-> "bg_rgb", args |-> <<0, 128, 255>>]
    /\ With(1) = <<"ESC[37m", "ESC[48;2;0;128;255m">>

\* C15: while a call is in progress and no call nested in it is, the stack is the
\* stack from before the call with the call's code on top; when it returns, its
\* entry is gone, the output holds the code, then the whole content, and ends with
\* the code that is on top once the entry is gone.
C15_PushRenderPopRead ==
    \A t \in Threads :
        /\ frames[t] # <<>> =>
              With(t) = frames[t][Len(frames[t])].stack0
                        \o <<frames[t][Len(frames[t])].code>>
        /\ Returned(t) =>
              /\ With(t) = done[t].stack0
              /\ done[t].out[1] = done[t].code
              /\ SubSeq(done[t].out, 2, Len(done[t].content) + 1) = done[t].content
              /\ done[t].out[Len(done[t].out)] =
                    (IF With(t) = <<>> THEN "ESC[37m" ELSE With(t)[Len(With(t))])

\* green!("Hello") has returned inside red!(..), on a stack that held white, green
C15_Witness ==
    /\ Returned(1)
    /\ done[1].depth = 2
    /\ done[1].code = "ESC[32m"
    /\ frames[1][1].code = "ESC[31m"
    /\ frames[1][1].buf = <<"ESC[32m", "Hello", "ESC[0m", "ESC[31m">>
    /\ With(1) = <<"ESC[37m", "ESC[32m", "ESC[31m">>

Converted(macro, args) ==
    IF macro \in {"hsl", "bg_hsl"} THEN hsl_to_rgb(args[1], args[2], args[3])
    ELSE hsv_to_rgb(args[1], args[2], args[3])

HsLayer(macro) == IF macro \in {"hsl", "hsv"} THEN 38 ELSE 48

HsMacros == {"hsl", "hsv", "bg_hsl", "bg_hsv"}

\* C16: hsl!, hsv!, bg_hsl!, bg_hsv! return what rgb! (bg_rgb!) returns for the
\* converted colour; the one entry the call pushes is the code of the converted
\* colour, and the call's return removes it.
C16_HsEntryPoints ==
    \A t \in Threads :
        /\ (frames[t] # <<>> /\ frames[t][Len(frames[t])].via.macro \in HsMacros) =>
              With(t) = frames[t][Len(frames[t])].stack0
                        \o <<TrueColour(HsLayer(frames[t][Len(frames[t])].via.macro),
                                        Converted(frames[t][Len(frames[t])].via.macro,
                                                  frames[t][Len(frames[t])].via.args))>>
        /\ (Returned(t) /\ done[t].via.macro \in HsMacros) =>
              /\ done[t].out = lib_apply_color(
                                  TrueColour(HsLayer(done[t].via.macro),
                                             Converted(done[t].via.macro, done[t].via.args)),
                                  done[t].content, done[t].stack0)
              /\ With(t) = done[t].stack0

\* hsl!(0.0, 1.0, 0.5, "{}", bg_hsv!(120.0, 1.0, 1.0, "Hello")) on a fresh thread
C16_Witness ==
    /\ Returned(1)
    /\ done[1].via = [macro |-> "hsl", args |-> <<0, 4, 2>>]
    /\ done[1].out = <<"ESC[38;2;255;0;0m", "ESC[48;2;0;255;0m", "Hello", "ESC[0m",
                       "ESC[38;2;255;0;0m", "ESC[0m", "ESC[37m">>
    /\ With(1) = <<"ESC[37m">>

\* C17: push(c) leaves every earlier entry where it was and adds c on top, so that
\* current_color() is c; pop() on two or more entries removes the top one only.
C17_PushPopFrame ==
    \A t \in Threads :
        /\ done[t].kind = "push" =>
              /\ Len(With(t)) = Len(done[t].stack0) + 1
              /\ \A i \in 1..Len(done[t].stack0) : With(t)[i] = done[t].stack0[i]
              /\ With(t)[Len(With(t))] = done[t].code
              /\ current_color(With(t)) = done[t].code
        /\ (done[t].kind = "pop" /\ Len(done[t].stack0) >= 2) =>
              /\ Len(With(t)) = Len(done[t].stack0) - 1
              /\ \A i \in 1..Len(With(t)) : With(t)[i] = done[t].stack0[i]

\* push(green) on the stack white, red
C17_Witness ==
    /\ done[1].kind = "push"
    /\ done[1].stack0 = <<"ESC[37m", "ESC[31m">>
    /\ With(1) = <<"ESC[37m", "ESC[31m", "ESC[32m">>

\* C18: when only apply calls that return touch the stack, it holds the sentinel
\* and above it, bottom to top, the codes of the calls in progress, outermost first.
C18_StackMirrorsCalls ==
    \A t \in Threads :
        /\ Len(With(t)) = 1 + Len(frames[t])
        /\ With(t)[1] = "ESC[37m"
        /\ \A i \in 1..Len(frames[t]) : With(t)[i + 1] = frames[t][i].code

\* inside red!(..), green!("") has returned and white!(..) is in progress
C18_Witness ==
    /\ Len(frames[1]) = 2
    /\ frames[1][1].buf = <<"ESC[32m", "ESC[0m", "ESC[31m">>
    /\ With(1) = <<"ESC[37m", "ESC[31m", "ESC[37m">>

\* C19: two calls with the same code, the same content and the same stack top at
\* the call return the same string, whatever happened before in their threads.
C19_OutputFromInputsOnly ==
    \A t \in Threads, u \in Threads :
        (/\ Returned(t) /\ Returned(u)
         /\ done[t].code = done[u].code
         /\ done[t].content = done[u].content
         /\ current_color(done[t].stack0) = current_color(done[u].stack0)) =>
            done[t].out = done[u].out

\* the same call after different histories: on the stack white, red in thread 1, on
\* the stack green, red in thread 2
C19_Witness ==
    /\ Returned(1) /\ Returned(2)
    /\ done[1].stack0 = <<"ESC[37m", "ESC[31m">>
    /\ done[2].stack0 = <<"ESC[32m", "ESC[31m">>
    /\ done[1].code = "ESC[32m" /\ done[2].code = "ESC[32m"
    /\ done[1].content = <<"Hello">> /\ done[2].content = <<"Hello">>
    /\ done[1].out = <<"ESC[32m", "Hello", "ESC[0m", "ESC[31m">>

\* C20: a call made on the empty stack returns what it returns on the stack that
\* holds the sentinel alone, and leaves the stack empty; a call nested in it closes
\* with its encloser's code.
C20_EmptyStackAsSentinel ==
    \A t \in Threads :
        /\ (Returned(t) /\ done[t].stack0 = <<>>) =>
              /\ done[t].out = lib_apply_color(done[t].code, done[t].content, <<"ESC[37m">>)
              /\ done[t].out[Len(done[t].out)] = "ESC[37m"
              /\ With(t) = <<>>
        /\ (Returned(t) /\ done[t].depth >= 2 /\ frames[t][1].stack0 = <<>>) =>
              Trail(done[t].out) = <<"ESC[0m", done[t].encl>>

\* red!("{}", green!("")) after a pop of the sentinel
C20_Witness ==
    /\ Returned(1)
    /\ done[1].stack0 = <<>>
    /\ done[1].out = <<"ESC[31m", "ESC[32m", "ESC[0m", "ESC[31m", "ESC[0m", "ESC[37m">>
    /\ With(1) = <<>>

====
